---- MODULE Spec2Model ----
(***************************************************************************)
(* Gita Exam API (src/server.py): the SQLite tables, the request handlers  *)
(* and the way concurrent requests interleave.                             *)
(*                                                                         *)
(* Every handler opens its own connection (get_db).  Python's sqlite3      *)
(* opens a transaction only in front of the first INSERT/UPDATE/DELETE of  *)
(* a connection, so each SELECT that precedes it reads its own snapshot    *)
(* and is a step of its own, while the writes of a handler, from the first *)
(* one to the commit of get_db, hold SQLite's single write lock and are    *)
(* one atomic step.  The dependency get_candidate runs on a connection of  *)
(* its own before the handler: it is the first step of every candidate     *)
(* request.                                                                *)
(*                                                                         *)
(* The text columns (title, text, lang) take part in no condition of the   *)
(* code and are left out of the rows.                                      *)
(***************************************************************************)
EXTENDS Integers, Sequences, FiniteSets, Bags, TLC

(***************************************************************************)
(* Bounds and input sets                                                   *)
(***************************************************************************)
\* requests that may be in flight at the same time
MaxInflight == 2

\* the seeded exam and its creator (init_db)
SampleExam == "exam1"
SeedCreator == "test_candidate"

\* values str(uuid.uuid4())[:6] may take in create_exam
NewExamIds == {"e2", "e3"}
ExamIds == {SampleExam} \cup NewExamIds

\* tokens str(uuid.uuid4()) may produce: <<first six characters, the rest>>
Tokens == {<<"a1", "x">>, <<"b2", "y">>}
Names == {"n"}

\* question ids str(uuid.uuid4()) may produce in add_question_with_options,
\* and the option ids drawn for the options of each, in request order
NewQuestionIds == {"q3"}
NewOptionIds == [q \in NewQuestionIds |->
                   <<q \o "a", q \o "b", q \o "c", q \o "d", q \o "e", q \o "f", q \o "g">>]

\* limits of the code
ExamLimit == 25
QuestionLimit == 25
MinOptions == 2
MaxOptions == 6

None == "-"
NoPay == <<0, 0>>

VARIABLES
  tokens,     \* table tokens: rows [token, candidate_id, active]
  exams,      \* table exams: rows [id, active, creator_id]
  questions,  \* table questions: rows [id, exam_id]
  options,    \* table options: rows [id, question_id, is_correct]
  attempts,   \* table attempts: rows [exam_id, candidate_id, submitted]
  answers,    \* table answers: rows [exam_id, candidate_id, question_id, option_id]
  reqs,       \* the bag of requests in flight, each where its handler stands
  resp,       \* the request that completed last: its handler, its HTTP status,
              \* out and flag as its body gives them (for submit_exam, flag
              \* tells that the attempt was submitted before the call)
  issued,     \* the uuids drawn so far, as tokens and as question ids (a uuid4
              \* is never drawn twice)
  submitOk    \* the (exam, candidate) pairs for which submit_exam has returned 200

db == <<tokens, exams, questions, options, attempts, answers>>
hist == <<submitOk>>
vars == <<tokens, exams, questions, options, attempts, answers, reqs, resp, issued, submitOk>>

(***************************************************************************)
(* init_db                                                                 *)
(***************************************************************************)
SeedQuestions ==
  { [id |-> "q1", exam_id |-> SampleExam], [id |-> "q2", exam_id |-> SampleExam] }

SeedOptions ==
  { [id |-> "o1", question_id |-> "q1", is_correct |-> 0],
    [id |-> "o2", question_id |-> "q1", is_correct |-> 1],
    [id |-> "o3", question_id |-> "q1", is_correct |-> 0],
    [id |-> "o4", question_id |-> "q2", is_correct |-> 1],
    [id |-> "o5", question_id |-> "q2", is_correct |-> 1],
    [id |-> "o6", question_id |-> "q2", is_correct |-> 0] }

SeedExam == [id |-> SampleExam, active |-> 1, creator_id |-> SeedCreator]

Idle == [op |-> "idle", pc |-> None, cand |-> None, exam |-> None, q |-> None,
         opt |-> None, pay |-> NoPay, todo |-> {}, out |-> {}, flag |-> FALSE]

NoResp == [op |-> None, status |-> None, out |-> {}, flag |-> FALSE]

Init ==
  /\ tokens = {}
  /\ exams = {SeedExam}
  /\ questions = SeedQuestions
  /\ options = SeedOptions
  /\ attempts = {}
  /\ answers = {}
  /\ reqs = EmptyBag
  /\ resp = NoResp
  /\ issued = [tok |-> {}, q |-> {}]
  /\ submitOk = {}

(***************************************************************************)
(* Queries and row operations on the tables                                *)
(***************************************************************************)
\* candidate_id = req.candidate_name + "_" + token[:6]
CandidateId(name, tok) == name \o "_" \o tok[1]

\* get_candidate without the test of the active column
GetCandidateAnyRow(tok) ==
  LET rows == { t \in tokens : t.token = tok }
  IN  IF rows = {} THEN None ELSE (CHOOSE t \in rows : TRUE).candidate_id

\* get_candidate: the candidate of an active token, None for HTTP 401
GetCandidate(tok) ==
  LET rows == { t \in tokens : t.token = tok }
  IN  IF rows = {} \/ (\E t \in rows : t.active = 0)
      THEN None
      ELSE (CHOOSE t \in rows : TRUE).candidate_id

\* the guard of the sample exam left out
IsSampleUnchecked(e) == FALSE

\* exam_id == "exam1"
IsSample(e) == e = SampleExam

ExamExists(e) == \E x \in exams : x.id = e
QuestionExists(q) == \E x \in questions : x.id = q
OptionExists(o) == \E x \in options : x.id = o

\* SELECT * FROM attempts WHERE exam_id=? AND candidate_id=?
AttemptRows(e, c) == { a \in attempts : a.exam_id = e /\ a.candidate_id = c }

\* the check of the attempt left out
IsSubmittedUnchecked(e, c) == FALSE

\* att and att["submitted"]
IsSubmitted(e, c) == \E a \in AttemptRows(e, c) : a.submitted = 1

\* SELECT question_id, option_id FROM answers WHERE exam_id=?
AnswerRowsOfExam(e, c) == { a \in answers : a.exam_id = e }

\* SELECT question_id, option_id FROM answers WHERE exam_id=? AND candidate_id=?
AnswerRows(e, c) == { a \in answers : a.exam_id = e /\ a.candidate_id = c }

\* answers = {r["question_id"]: r["option_id"] for r in rows}
AnswerMap(rows) == { <<a.question_id, a.option_id>> : a \in rows }

\* INSERT OR IGNORE INTO attempts VALUES (?, ?, 0), under PRIMARY KEY
\* (exam_id, candidate_id)
InsertOrIgnoreAttempt(att, e, c) ==
  IF \E a \in att : a.exam_id = e /\ a.candidate_id = c
  THEN att
  ELSE att \cup { [exam_id |-> e, candidate_id |-> c, submitted |-> 0] }

\* UPDATE attempts SET submitted=1 WHERE exam_id=?, the candidate left out
MarkSubmittedExam(att, e, c) ==
  { IF a.exam_id = e THEN [a EXCEPT !.submitted = 1] ELSE a : a \in att }

\* UPDATE attempts SET submitted=1 WHERE exam_id=? AND candidate_id=?
MarkSubmitted(att, e, c) ==
  { IF a.exam_id = e /\ a.candidate_id = c
    THEN [a EXCEPT !.submitted = 1] ELSE a : a \in att }

\* INSERT INTO answers with neither the PRIMARY KEY nor ON CONFLICT
InsertAnswer(ans, e, c, q, o) ==
  ans \cup { [exam_id |-> e, candidate_id |-> c, question_id |-> q, option_id |-> o] }

\* a save that writes the candidate's answers anew with its one row
OverwriteAnswers(ans, e, c, q, o) ==
  { a \in ans : ~(a.exam_id = e /\ a.candidate_id = c) }
    \cup { [exam_id |-> e, candidate_id |-> c, question_id |-> q, option_id |-> o] }

\* INSERT INTO answers ... ON CONFLICT(exam_id, candidate_id, question_id)
\* DO UPDATE SET option_id=excluded.option_id
UpsertAnswer(ans, e, c, q, o) ==
  { a \in ans : ~(a.exam_id = e /\ a.candidate_id = c /\ a.question_id = q) }
    \cup { [exam_id |-> e, candidate_id |-> c, question_id |-> q, option_id |-> o] }

\* the foreign keys of answers not enforced
AnswerFkOff(e, q, o) == TRUE

\* the FOREIGN KEY clauses of attempts and answers, enforced by
\* PRAGMA foreign_keys=ON when the row is written
AttemptFkOk(e) == ExamExists(e)
AnswerFkOk(e, q, o) == ExamExists(e) /\ QuestionExists(q) /\ OptionExists(o)

\* a failed handler that commits what it wrote before the failure
CommitPartial(before, written) == written

\* get_db on an exception: conn.rollback() gives back the table as it was
\* before the handler's writes
Rollback(before, written) == before

\* UPDATE exams SET active=0
ClearActive(ex) == { [x EXCEPT !.active = 0] : x \in ex }

\* UPDATE exams SET active=1 WHERE id=?
SetActive(ex, e) == { IF x.id = e THEN [x EXCEPT !.active = 1] ELSE x : x \in ex }

\* activate_exam without its first UPDATE
ActivateNoClear(ex, e) == SetActive(ex, e)

\* the two UPDATEs of activate_exam, committed together
ActivateTxn(ex, e) == SetActive(ClearActive(ex), e)

\* the rows DELETE FROM options WHERE question_id IN qs removes
OptionsOf(qs) == { o \in options : o.question_id \in qs }

\* the answers kept when questions are deleted
AnswersKept(ans, qs, os) == ans

\* answers left after questions qs and options os are deleted: the explicit
\* DELETE FROM answers WHERE question_id=? and the ON DELETE CASCADE of
\* answers.question_id and answers.option_id
AnswersAfterDelete(ans, qs, os) ==
  { a \in ans : a.question_id \notin qs /\ a.option_id \notin { o.id : o \in os } }

(***************************************************************************)
(* Requests                                                                *)
(***************************************************************************)
Call(op, e, q, o, pay) == [op |-> op, exam |-> e, q |-> q, opt |-> o, pay |-> pay]

Respond(r, status, out, flag) ==
  resp' = [op |-> r.op, status |-> status, out |-> out, flag |-> flag]

\* request r ends with a response
Finish(r, status, out, flag) ==
  /\ reqs' = reqs (-) SetToBag({r})
  /\ Respond(r, status, out, flag)

\* request r goes on as r2
Replace(r, r2) == reqs' = (reqs (-) SetToBag({r})) (+) SetToBag({r2})

Goto(r, pc) == Replace(r, [r EXCEPT !.pc = pc])

At(r, op, pc) == r.op = op /\ r.pc = pc

InFlight == BagToSet(reqs)

\* Depends(get_candidate): a candidate request arrives with a token
Begin(tok, call) ==
  /\ BagCardinality(reqs) < MaxInflight
  /\ call.op = "add_question" =>
       BagCardinality([ x \in { y \in InFlight : y.op = "add_question" } |-> reqs[x] ])
         < Cardinality(NewQuestionIds \ issued.q)
  /\ LET c == GetCandidate(tok)
         r == [Idle EXCEPT !.op = call.op, !.pc = "s1", !.cand = c, !.exam = call.exam,
                           !.q = call.q, !.opt = call.opt, !.pay = call.pay]
     IN  IF c = None
         THEN /\ Respond(r, "401", {}, FALSE)
              /\ UNCHANGED reqs
         ELSE /\ reqs' = reqs (+) SetToBag({r})
              /\ UNCHANGED resp
  /\ UNCHANGED <<db, issued, hist>>

\* submit_exam
SubmitExam(r) ==
  /\ At(r, "submit", "s1")
  /\ LET att1 == InsertOrIgnoreAttempt(attempts, r.exam, r.cand)
     IN  IF IsSample(r.exam)
         THEN /\ Finish(r, "400", {}, FALSE)
              /\ UNCHANGED <<attempts, hist>>
         ELSE IF att1 # attempts /\ ~AttemptFkOk(r.exam)
         THEN /\ Finish(r, "500", {}, FALSE)
              /\ UNCHANGED <<attempts, hist>>
         ELSE /\ attempts' = MarkSubmitted(att1, r.exam, r.cand)
              /\ submitOk' = submitOk \cup {<<r.exam, r.cand>>}
              /\ Finish(r, "200", {}, IsSubmitted(r.exam, r.cand))
  /\ UNCHANGED <<tokens, exams, questions, options, answers, issued>>

\* select_option, up to the check of the attempt
SelectCheck(r) ==
  /\ At(r, "select", "s1")
  /\ IF IsSample(r.exam)
     THEN Finish(r, "400", {}, FALSE)
     ELSE IF IsSubmitted(r.exam, r.cand)
     THEN Finish(r, "403", {}, FALSE)
     ELSE Goto(r, "s2") /\ UNCHANGED resp
  /\ UNCHANGED <<db, issued, hist>>

\* select_option, the two writes and the commit
SelectWrite(r) ==
  /\ At(r, "select", "s2")
  /\ LET att1 == InsertOrIgnoreAttempt(attempts, r.exam, r.cand)
     IN  IF att1 # attempts /\ ~AttemptFkOk(r.exam)
         THEN /\ Finish(r, "500", {}, FALSE)
              /\ UNCHANGED <<attempts, answers>>
         ELSE IF ~AnswerFkOk(r.exam, r.q, r.opt)
         THEN /\ Finish(r, "500", {}, FALSE)
              /\ attempts' = Rollback(attempts, att1)
              /\ UNCHANGED answers
         ELSE /\ attempts' = att1
              /\ answers' = UpsertAnswer(answers, r.exam, r.cand, r.q, r.opt)
              /\ Finish(r, "200", {}, FALSE)
  /\ UNCHANGED <<tokens, exams, questions, options, issued, hist>>

\* activate_exam
ActivateExam(r) ==
  /\ At(r, "activate", "s1")
  /\ IF IsSample(r.exam)
     THEN /\ Finish(r, "400", {}, FALSE)
          /\ UNCHANGED exams
     ELSE /\ exams' = ActivateTxn(exams, r.exam)
          /\ Finish(r, "200", {}, FALSE)
  /\ UNCHANGED <<tokens, questions, options, attempts, answers, issued, hist>>

\* get_state, the SELECT on answers
GetStateAnswers(r) ==
  /\ At(r, "get_state", "s1")
  /\ Replace(r, [r EXCEPT !.pc = "s2", !.out = AnswerMap(AnswerRows(r.exam, r.cand))])
  /\ UNCHANGED <<db, resp, issued, hist>>

\* get_state, the SELECT on attempts and the result
GetStateAttempt(r) ==
  /\ At(r, "get_state", "s2")
  /\ Finish(r, "200", r.out, IsSubmitted(r.exam, r.cand))
  /\ UNCHANGED <<db, issued, hist>>

\* list_exams
ListExams(r) ==
  /\ At(r, "list_exams", "s1")
  /\ Finish(r, "200", { x.id : x \in { y \in exams : y.creator_id = r.cand } }, FALSE)
  /\ UNCHANGED <<db, issued, hist>>

\* get_active_exam: fetchone() of SELECT * FROM exams WHERE active=1
GetActiveExam(r) ==
  /\ At(r, "get_active", "s1")
  /\ LET rows == { x \in exams : x.active = 1 }
     IN  IF rows = {}
         THEN Finish(r, "200", {}, FALSE)
         ELSE \E x \in rows : Finish(r, "200", {x.id}, TRUE)
  /\ UNCHANGED <<db, issued, hist>>

\* load_exam, the check of the attempt
LoadCheck(r) ==
  /\ At(r, "load_exam", "s1")
  /\ IF IsSubmitted(r.exam, r.cand)
     THEN Finish(r, "403", {}, FALSE)
     ELSE Goto(r, "s2") /\ UNCHANGED resp
  /\ UNCHANGED <<db, issued, hist>>

\* load_exam, SELECT * FROM exams WHERE id=?
LoadExamRow(r) ==
  /\ At(r, "load_exam", "s2")
  /\ LET rows == { x \in exams : x.id = r.exam }
     IN  IF rows = {}
         THEN Finish(r, "404", {}, FALSE)
         ELSE /\ Replace(r, [r EXCEPT !.pc = "s3", !.flag = (\E x \in rows : x.active = 1)])
              /\ UNCHANGED resp
  /\ UNCHANGED <<db, issued, hist>>

\* load_exam, SELECT * FROM questions WHERE exam_id=?
LoadQuestions(r) ==
  /\ At(r, "load_exam", "s3")
  /\ LET qs == { x.id : x \in { y \in questions : y.exam_id = r.exam } }
     IN  IF qs = {}
         THEN Finish(r, "200", {}, r.flag)
         ELSE /\ Replace(r, [r EXCEPT !.pc = "s4", !.todo = qs])
              /\ UNCHANGED resp
  /\ UNCHANGED <<db, issued, hist>>

\* SELECT id, text FROM options WHERE question_id=?
OptionIdsOf(q) == { o.id : o \in { x \in options : x.question_id = q } }

\* load_exam, one turn of the loop over the questions read
LoadOptions(r, q) ==
  /\ At(r, "load_exam", "s4")
  /\ q \in r.todo
  /\ LET out1 == r.out \cup { [id |-> q, options |-> OptionIdsOf(q)] }
     IN  IF r.todo = {q}
         THEN Finish(r, "200", out1, r.flag)
         ELSE /\ Replace(r, [r EXCEPT !.todo = @ \ {q}, !.out = out1])
              /\ UNCHANGED resp
  /\ UNCHANGED <<db, issued, hist>>

\* SELECT COUNT(*) FROM exams WHERE creator_id=?
ExamCount(c) == Cardinality({ x \in exams : x.creator_id = c })

\* create_exam, the count
CreateExamCount(r) ==
  /\ At(r, "create_exam", "s1")
  /\ IF ExamCount(r.cand) >= ExamLimit
     THEN Finish(r, "400", {}, FALSE)
     ELSE Goto(r, "s2") /\ UNCHANGED resp
  /\ UNCHANGED <<db, issued, hist>>

\* create_exam, the INSERT of exam id (a PRIMARY KEY clash is an IntegrityError)
CreateExamInsert(r, id) ==
  /\ At(r, "create_exam", "s2")
  /\ IF ExamExists(id)
     THEN /\ Finish(r, "500", {}, FALSE)
          /\ UNCHANGED exams
     ELSE /\ exams' = exams \cup { [id |-> id, active |-> 0, creator_id |-> r.cand] }
          /\ Finish(r, "200", {id}, FALSE)
  /\ UNCHANGED <<tokens, questions, options, attempts, answers, issued, hist>>

\* SELECT COUNT(*) FROM questions WHERE exam_id=?
QuestionCount(e) == Cardinality({ x \in questions : x.exam_id = e })

\* the checks of the request without the one of more than 6 options
PayloadErrorNoMax(e, pay) ==
  \/ IsSample(e)
  \/ pay[1] < MinOptions
  \/ pay[2] = 0

\* the checks of add_question_with_options on the request alone; pay is
\* <<number of options, number of them marked correct>>
PayloadError(e, pay) ==
  \/ IsSample(e)
  \/ pay[1] < MinOptions
  \/ pay[1] > MaxOptions
  \/ pay[2] = 0

\* add_question_with_options, the checks of the request and the count
AddQuestionCount(r) ==
  /\ At(r, "add_question", "s1")
  /\ IF PayloadError(r.exam, r.pay)
        \/ QuestionCount(r.exam) >= QuestionLimit
     THEN Finish(r, "400", {}, FALSE)
     ELSE Goto(r, "s2") /\ UNCHANGED resp
  /\ UNCHANGED <<db, issued, hist>>

\* add_question_with_options, SELECT * FROM exams WHERE id=?
AddQuestionExam(r) ==
  /\ At(r, "add_question", "s2")
  /\ IF ~ExamExists(r.exam)
     THEN Finish(r, "404", {}, FALSE)
     ELSE Goto(r, "s3") /\ UNCHANGED resp
  /\ UNCHANGED <<db, issued, hist>>

\* the option rows written for question qid: is_correct of the first
\* pay[2] options is 1
NewOptionRows(qid, pay) ==
  { [id |-> NewOptionIds[qid][i], question_id |-> qid,
     is_correct |-> IF i <= pay[2] THEN 1 ELSE 0] : i \in 1..pay[1] }

\* add_question_with_options, the INSERTs and the commit
AddQuestionInsert(r, qid) ==
  /\ At(r, "add_question", "s3")
  /\ qid \in NewQuestionIds \ issued.q
  /\ issued' = [issued EXCEPT !.q = @ \cup {qid}]
  /\ IF ~ExamExists(r.exam)
     THEN /\ Finish(r, "500", {}, FALSE)
          /\ UNCHANGED <<questions, options>>
     ELSE /\ questions' = questions \cup { [id |-> qid, exam_id |-> r.exam] }
          /\ options' = options \cup NewOptionRows(qid, r.pay)
          /\ Finish(r, "200", {qid}, FALSE)
  /\ UNCHANGED <<tokens, exams, attempts, answers, hist>>

\* delete_question, SELECT exam_id FROM questions WHERE id=?
DeleteQuestionOwner(r) ==
  /\ At(r, "delete_question", "s1")
  /\ LET rows == { x \in questions : x.id = r.q }
     IN  IF rows = {}
         THEN Finish(r, "404", {}, FALSE)
         ELSE IF \E x \in rows : IsSample(x.exam_id)
         THEN Finish(r, "400", {}, FALSE)
         ELSE Goto(r, "s2") /\ UNCHANGED resp
  /\ UNCHANGED <<db, issued, hist>>

\* delete_question, SELECT * FROM questions WHERE id=?
DeleteQuestionRow(r) ==
  /\ At(r, "delete_question", "s2")
  /\ IF ~QuestionExists(r.q)
     THEN Finish(r, "404", {}, FALSE)
     ELSE Goto(r, "s3") /\ UNCHANGED resp
  /\ UNCHANGED <<db, issued, hist>>

\* delete_question, the three DELETEs and the commit
DeleteQuestionWrite(r) ==
  /\ At(r, "delete_question", "s3")
  /\ answers' = AnswersAfterDelete(answers, {r.q}, OptionsOf({r.q}))
  /\ options' = options \ OptionsOf({r.q})
  /\ questions' = { x \in questions : x.id # r.q }
  /\ Finish(r, "200", {}, FALSE)
  /\ UNCHANGED <<tokens, exams, attempts, issued, hist>>

(***************************************************************************)
(* Admin requests (the header passes require_admin unless stated)          *)
(***************************************************************************)
AdminResp(op, status, c) == [NoResp EXCEPT !.op = op, !.status = status]

\* require_admin raising 403
RequireAdminFail ==
  /\ resp' = AdminResp("admin", "403", None)
  /\ UNCHANGED <<db, reqs, issued, hist>>

\* create_token
CreateToken(name, tok) ==
  /\ tok \in Tokens \ issued.tok
  /\ issued' = [issued EXCEPT !.tok = @ \cup {tok}]
  /\ tokens' = tokens \cup
       { [token |-> tok, candidate_id |-> CandidateId(name, tok), active |-> 1] }
  /\ resp' = AdminResp("create_token", "200", CandidateId(name, tok))
  /\ UNCHANGED <<exams, questions, options, attempts, answers, reqs, hist>>

\* list_tokens
ListTokens ==
  /\ resp' = [AdminResp("list_tokens", "200", None) EXCEPT !.out = { t.token : t \in tokens }]
  /\ UNCHANGED <<db, reqs, issued, hist>>

\* revoke_token: db.total_changes counts the rows the UPDATE touched
RevokeToken(tok) ==
  /\ IF \E t \in tokens : t.token = tok
     THEN /\ tokens' = { IF t.token = tok THEN [t EXCEPT !.active = 0] ELSE t : t \in tokens }
          /\ resp' = AdminResp("revoke_token", "200", None)
     ELSE /\ UNCHANGED tokens
          /\ resp' = AdminResp("revoke_token", "404", None)
  /\ UNCHANGED <<exams, questions, options, attempts, answers, reqs, issued, hist>>

\* delete_candidate_data, SELECT * FROM tokens WHERE candidate_id=?
PurgeCheck(c) ==
  /\ BagCardinality(reqs) < MaxInflight
  /\ IF ~\E t \in tokens : t.candidate_id = c
     THEN /\ resp' = AdminResp("purge", "404", c)
          /\ UNCHANGED reqs
     ELSE /\ reqs' = reqs (+) SetToBag({[Idle EXCEPT !.op = "purge", !.pc = "s2", !.cand = c]})
          /\ UNCHANGED resp
  /\ UNCHANGED <<db, issued, hist>>

\* delete_candidate_data, the two DELETEs and the commit; DELETE FROM exams
\* cascades to questions, options, attempts and answers
PurgeWrite(r) ==
  /\ At(r, "purge", "s2")
  /\ LET c == r.cand
         es == { x.id : x \in { y \in exams : y.creator_id = c } }
         qs == { x.id : x \in { y \in questions : y.exam_id \in es } }
     IN  /\ exams' = { x \in exams : x.creator_id # c }
         /\ questions' = { x \in questions : x.exam_id \notin es }
         /\ options' = options \ OptionsOf(qs)
         /\ attempts' = { a \in attempts : a.exam_id \notin es }
         /\ answers' = { a \in AnswersAfterDelete(answers, qs, OptionsOf(qs)) :
                           a.exam_id \notin es }
         /\ tokens' = { t \in tokens : t.candidate_id # c }
  /\ Finish(r, "200", {}, FALSE)
  /\ UNCHANGED <<issued, hist>>

(***************************************************************************)
(* Specifications: the same handlers, each with the requests of one part   *)
(* of the system arriving in any order and interleaving.  An arrival is a  *)
(* token and a call.                                                       *)
(***************************************************************************)
AnyToken(calls) == Tokens \X calls

\* the token of the candidate who creates the exam the others work on
CreatorToken == <<"a1", "x">>
AttemptExam == "e2"
CreateCall == Call("create_exam", None, None, None, NoPay)

\* issuing, revoking and purging
TokenAdmin ==
  \/ \E name \in Names, tok \in Tokens : CreateToken(name, tok)
  \/ \E tok \in Tokens : RevokeToken(tok)
  \/ \E tok \in Tokens, name \in Names : PurgeCheck(CandidateId(name, tok))
  \/ \E r \in InFlight : PurgeWrite(r)

\* The exam catalog and the active flag.
CatalogCalls ==
  { CreateCall, Call("get_active", None, None, None, NoPay) }
    \cup { Call("activate", e, None, None, NoPay) : e \in ExamIds }

Next ==
  \/ \E a \in AnyToken(CatalogCalls) : Begin(a[1], a[2])
  \/ \E r \in InFlight : GetActiveExam(r)
  \/ \E r \in InFlight : CreateExamCount(r)
  \/ \E r \in InFlight, id \in NewExamIds : CreateExamInsert(r, id)
  \/ \E r \in InFlight : ActivateExam(r)
  \/ TokenAdmin

Spec == Init /\ [][Next]_vars

\* Every mutating request addressed to the sample exam, beside requests that
\* create, answer and submit another exam.
SampleCalls ==
  { Call("add_question", SampleExam, None, None, <<2, 1>>),
    Call("delete_question", None, "q1", None, NoPay),
    Call("activate", SampleExam, None, None, NoPay),
    Call("select", SampleExam, "q1", "o2", NoPay),
    Call("submit", SampleExam, None, None, NoPay),
    Call("select", AttemptExam, "q1", "o2", NoPay),
    Call("submit", AttemptExam, None, None, NoPay) }

NextSample ==
  \/ \E a \in AnyToken(SampleCalls \cup {CreateCall}) : Begin(a[1], a[2])
  \/ \E r \in InFlight : AddQuestionCount(r)
  \/ \E r \in InFlight : DeleteQuestionOwner(r)
  \/ \E r \in InFlight : ActivateExam(r)
  \/ \E r \in InFlight : SelectCheck(r)
  \/ \E r \in InFlight : SelectWrite(r)
  \/ \E r \in InFlight : SubmitExam(r)
  \/ \E r \in InFlight : CreateExamCount(r)
  \/ \E r \in InFlight : CreateExamInsert(r, AttemptExam)
  \/ \E name \in Names, tok \in Tokens : CreateToken(name, tok)

SpecSample == Init /\ [][NextSample]_vars

\* The attempt and answer engine: two candidates answer, submit and load.
AttemptCalls ==
  { Call("select", AttemptExam, "q1", "o1", NoPay),
    Call("select", AttemptExam, "q1", "o2", NoPay),
    Call("submit", AttemptExam, None, None, NoPay),
    Call("load_exam", AttemptExam, None, None, NoPay) }

NextAttempt ==
  \/ \E a \in AnyToken(AttemptCalls \cup {CreateCall}) : Begin(a[1], a[2])
  \/ \E r \in InFlight : CreateExamCount(r)
  \/ \E r \in InFlight : CreateExamInsert(r, AttemptExam)
  \/ \E r \in InFlight : SelectCheck(r)
  \/ \E r \in InFlight : SelectWrite(r)
  \/ \E r \in InFlight : SubmitExam(r)
  \/ \E r \in InFlight : LoadCheck(r)
  \/ \E r \in InFlight : LoadExamRow(r)
  \/ \E r \in InFlight : LoadQuestions(r)
  \/ \E name \in Names, tok \in Tokens : CreateToken(name, tok)

SpecAttempt == Init /\ [][NextAttempt]_vars

\* Two candidates answer and submit while get_state reads.
StateCalls ==
  { Call("select", AttemptExam, "q1", "o1", NoPay),
    Call("select", AttemptExam, "q1", "o2", NoPay),
    Call("submit", AttemptExam, None, None, NoPay),
    Call("get_state", AttemptExam, None, None, NoPay) }

NextState ==
  \/ \E a \in AnyToken(StateCalls \cup {CreateCall}) : Begin(a[1], a[2])
  \/ \E r \in InFlight : CreateExamCount(r)
  \/ \E r \in InFlight : CreateExamInsert(r, AttemptExam)
  \/ \E r \in InFlight : SelectCheck(r)
  \/ \E r \in InFlight : SelectWrite(r)
  \/ \E r \in InFlight : SubmitExam(r)
  \/ \E r \in InFlight : GetStateAnswers(r)
  \/ \E r \in InFlight : GetStateAttempt(r)
  \/ \E name \in Names, tok \in Tokens : CreateToken(name, tok)

SpecState == Init /\ [][NextState]_vars

\* Questions added, answered and deleted.
DeleteCalls ==
  { Call("delete_question", None, "q3", None, NoPay),
    Call("select", AttemptExam, "q3", "q3a", NoPay),
    Call("submit", AttemptExam, None, None, NoPay),
    Call("get_state", AttemptExam, None, None, NoPay) }

DeleteSetup ==
  { <<CreatorToken, CreateCall>>,
    <<CreatorToken, Call("add_question", AttemptExam, None, None, <<2, 1>>)>> }

NextDelete ==
  \/ \E a \in AnyToken(DeleteCalls) \cup DeleteSetup : Begin(a[1], a[2])
  \/ \E r \in InFlight : CreateExamCount(r)
  \/ \E r \in InFlight : CreateExamInsert(r, AttemptExam)
  \/ \E r \in InFlight : AddQuestionCount(r)
  \/ \E r \in InFlight : AddQuestionExam(r)
  \/ \E r \in InFlight, qid \in NewQuestionIds : AddQuestionInsert(r, qid)
  \/ \E r \in InFlight : DeleteQuestionOwner(r)
  \/ \E r \in InFlight : DeleteQuestionRow(r)
  \/ \E r \in InFlight : DeleteQuestionWrite(r)
  \/ \E r \in InFlight : SelectCheck(r)
  \/ \E r \in InFlight : SelectWrite(r)
  \/ \E r \in InFlight : SubmitExam(r)
  \/ \E r \in InFlight : GetStateAnswers(r)
  \/ \E r \in InFlight : GetStateAttempt(r)
  \/ \E name \in Names, tok \in Tokens : CreateToken(name, tok)

SpecDelete == Init /\ [][NextDelete]_vars

\* Candidates answer, submit and read their state on an exam whose creator,
\* like any candidate, the admin may purge.
PurgeCalls ==
  { Call("select", AttemptExam, "q1", "o1", NoPay),
    Call("submit", AttemptExam, None, None, NoPay),
    Call("get_state", AttemptExam, None, None, NoPay) }

NextPurge ==
  \/ \E a \in AnyToken(PurgeCalls) \cup {<<CreatorToken, CreateCall>>} : Begin(a[1], a[2])
  \/ \E r \in InFlight : CreateExamCount(r)
  \/ \E r \in InFlight : CreateExamInsert(r, AttemptExam)
  \/ \E r \in InFlight : SelectCheck(r)
  \/ \E r \in InFlight : SelectWrite(r)
  \/ \E r \in InFlight : SubmitExam(r)
  \/ \E r \in InFlight : GetStateAnswers(r)
  \/ \E r \in InFlight : GetStateAttempt(r)
  \/ \E name \in Names, tok \in Tokens : CreateToken(name, tok)
  \/ \E tok \in Tokens, name \in Names : PurgeCheck(CandidateId(name, tok))
  \/ \E r \in InFlight : PurgeWrite(r)

SpecPurge == Init /\ [][NextPurge]_vars

\* One candidate creates exams up to the limit and past it, while both list
\* their own and the admin lists the tokens.  A value of str(uuid.uuid4())[:6] that clashes with no stored
\* id: the exams table only grows here, so its size names a new id.
FreshExamId == "x" \o ToString(Cardinality(exams))

LimitCalls == { Call("list_exams", None, None, None, NoPay) }

NextLimit ==
  \/ \E a \in AnyToken(LimitCalls) \cup {<<CreatorToken, CreateCall>>} : Begin(a[1], a[2])
  \/ \E r \in InFlight : CreateExamCount(r)
  \/ \E r \in InFlight : CreateExamInsert(r, FreshExamId)
  \/ \E r \in InFlight : ListExams(r)
  \/ \E name \in Names, tok \in Tokens : CreateToken(name, tok)
  \/ ListTokens
  \/ RequireAdminFail

SpecLimit == Init /\ [][NextLimit]_vars

\* Questions are added, with option lists the code takes and option lists it
\* refuses, and deleted, while load_exam reads the exam and the admin may
\* purge its creator.
Payloads == { <<1, 1>>, <<2, 0>>, <<2, 1>>, <<6, 2>>, <<7, 1>> }

QuestionCalls ==
  { Call("delete_question", None, "q3", None, NoPay),
    Call("load_exam", AttemptExam, None, None, NoPay) }

QuestionSetup ==
  {<<CreatorToken, CreateCall>>}
    \cup { <<CreatorToken, Call("add_question", AttemptExam, None, None, pay)>> :
             pay \in Payloads }

NextQuestions ==
  \/ \E a \in AnyToken(QuestionCalls) \cup QuestionSetup : Begin(a[1], a[2])
  \/ \E r \in InFlight : CreateExamCount(r)
  \/ \E r \in InFlight : CreateExamInsert(r, AttemptExam)
  \/ \E r \in InFlight : AddQuestionCount(r)
  \/ \E r \in InFlight : AddQuestionExam(r)
  \/ \E r \in InFlight, qid \in NewQuestionIds : AddQuestionInsert(r, qid)
  \/ \E r \in InFlight : DeleteQuestionOwner(r)
  \/ \E r \in InFlight : DeleteQuestionRow(r)
  \/ \E r \in InFlight : DeleteQuestionWrite(r)
  \/ \E r \in InFlight : LoadCheck(r)
  \/ \E r \in InFlight : LoadExamRow(r)
  \/ \E r \in InFlight : LoadQuestions(r)
  \/ \E r \in InFlight, q \in NewQuestionIds : LoadOptions(r, q)
  \/ \E name \in Names, tok \in Tokens : CreateToken(name, tok)
  \/ \E name \in Names : PurgeCheck(CandidateId(name, CreatorToken))
  \/ \E r \in InFlight : PurgeWrite(r)

SpecQuestions == Init /\ [][NextQuestions]_vars

\* Saves of one candidate and of another, for one question and for two, in
\* flight together.
SaveCalls ==
  { Call("select", AttemptExam, "q1", "o1", NoPay),
    Call("select", AttemptExam, "q1", "o2", NoPay),
    Call("select", AttemptExam, "q2", "o4", NoPay) }

NextSave ==
  \/ \E a \in AnyToken(SaveCalls) \cup {<<CreatorToken, CreateCall>>} : Begin(a[1], a[2])
  \/ \E r \in InFlight : CreateExamCount(r)
  \/ \E r \in InFlight : CreateExamInsert(r, AttemptExam)
  \/ \E r \in InFlight : SelectCheck(r)
  \/ \E r \in InFlight : SelectWrite(r)
  \/ \E name \in Names, tok \in Tokens : CreateToken(name, tok)

SpecSave == Init /\ [][NextSave]_vars

\* Saves and submits that name an exam, a question and an option which are
\* there at one time and not at another: the exam is created and purged with
\* its creator, the question added and deleted.
RefCalls ==
  { Call("select", AttemptExam, "q3", "q3a", NoPay),
    Call("submit", AttemptExam, None, None, NoPay),
    Call("delete_question", None, "q3", None, NoPay) }

NextRefs ==
  \/ \E a \in AnyToken(RefCalls) \cup DeleteSetup : Begin(a[1], a[2])
  \/ \E r \in InFlight : CreateExamCount(r)
  \/ \E r \in InFlight : CreateExamInsert(r, AttemptExam)
  \/ \E r \in InFlight : AddQuestionCount(r)
  \/ \E r \in InFlight : AddQuestionExam(r)
  \/ \E r \in InFlight, qid \in NewQuestionIds : AddQuestionInsert(r, qid)
  \/ \E r \in InFlight : DeleteQuestionOwner(r)
  \/ \E r \in InFlight : DeleteQuestionRow(r)
  \/ \E r \in InFlight : DeleteQuestionWrite(r)
  \/ \E r \in InFlight : SelectCheck(r)
  \/ \E r \in InFlight : SelectWrite(r)
  \/ \E r \in InFlight : SubmitExam(r)
  \/ \E name \in Names, tok \in Tokens : CreateToken(name, tok)
  \/ \E name \in Names : PurgeCheck(CandidateId(name, CreatorToken))
  \/ \E r \in InFlight : PurgeWrite(r)

SpecRefs == Init /\ [][NextRefs]_vars

(***************************************************************************)
(* Properties                                                              *)
(***************************************************************************)
ActiveExams == { x \in exams : x.active = 1 }

\* a step of request r: it leaves the bag, or goes on from another place
Stepped(r) == CopiesIn(r, reqs') < CopiesIn(r, reqs)

\* C1: in every reachable state, under any interleaving of activate_exam
\* calls for different exams with create_exam, purge and the token
\* requests, at most one exam row has active=1.
C1_AtMostOneActive == Cardinality(ActiveExams) <= 1

\* an activation of one exam has committed while the activation of another
\* existing exam is in flight
C1_Witness ==
  /\ resp.op = "activate" /\ resp.status = "200"
  /\ \E x \in ActiveExams, r \in InFlight :
       /\ x.id # SampleExam
       /\ r.op = "activate" /\ r.exam # x.id /\ r.exam # SampleExam /\ ExamExists(r.exam)

\* C2: after each activate_exam call that returns success exactly one exam
\* has active=1, for every exam id a caller may pass, an id that names no
\* exam included.
C2_ExactlyOneAfterActivate ==
  (resp.op = "activate" /\ resp.status = "200") => Cardinality(ActiveExams) = 1

\* C10: the sample exam's questions, options and active flag equal their
\* seeded values in every reachable state.
C10_SampleExamUnchanged ==
  /\ { x \in exams : x.id = SampleExam } = {SeedExam}
  /\ { x \in questions : x.exam_id = SampleExam } = SeedQuestions
  /\ OptionsOf({ x.id : x \in SeedQuestions }) = SeedOptions

\* the candidates a token can stand for
Candidates == { CandidateId(name, tok) : name \in Names, tok \in Tokens }

SameKey(a, e, c, q) == a.exam_id = e /\ a.candidate_id = c /\ a.question_id = q

\* C3: once submit_exam has returned 200 for (E, C), every select_option of
\* C on E that starts is answered 403 and changes no table, and every
\* load_exam of C on E that starts is answered 403.
C3_SubmissionLock ==
  [][\A r \in InFlight :
       (Stepped(r) /\ r.pc = "s1" /\ <<r.exam, r.cand>> \in submitOk
          /\ r.op \in {"select", "load_exam"})
       => /\ resp' = [op |-> r.op, status |-> "403", out |-> {}, flag |-> FALSE]
          /\ reqs' = reqs (-) SetToBag({r})
          /\ db' = db]_vars

\* a select_option was answered 403 for a candidate who had saved an answer
\* and then submitted
C3_Witness ==
  /\ resp.op = "select" /\ resp.status = "403"
  /\ \E p \in submitOk : AnswerRows(p[1], p[2]) # {}

\* C4: no answer row of (E, C) is inserted or changed by a write that
\* commits after the commit that set submitted=1 for (E, C).
C4_NoWriteAfterSubmit ==
  [][\A r \in InFlight :
       (Stepped(r) /\ r.op = "select" /\ IsSubmitted(r.exam, r.cand))
       => answers' = answers]_vars

\* no two answer rows share (exam, candidate, question)
C5_OneRowPerKey ==
  \A a, b \in answers :
    SameKey(a, b.exam_id, b.candidate_id, b.question_id) => a = b

\* what the commit of a select_option leaves
C5_LastWriteWins ==
  \A r \in InFlight :
    (Stepped(r) /\ At(r, "select", "s2") /\ resp'.status = "200")
    => LET row == [exam_id |-> r.exam, candidate_id |-> r.cand,
                   question_id |-> r.q, option_id |-> r.opt]
       IN  /\ { a \in answers' : SameKey(a, r.exam, r.cand, r.q) } = {row}
           /\ { a \in answers' : ~SameKey(a, r.exam, r.cand, r.q) }
                = { a \in answers : ~SameKey(a, r.exam, r.cand, r.q) }
           /\ row \in answers => db' = db

\* C5: there is at most one answer row per (exam, candidate, question); a
\* successful select_option leaves exactly the saved option under its key
\* and every other row as it was; saving what is already stored changes
\* nothing.
C5_AnswerIdempotence == []C5_OneRowPerKey /\ [][C5_LastWriteWins]_vars

\* a candidate's answer is o2 after a save, a save of o1 under the same key
\* is about to overwrite it, and the other candidate holds o1
C5_Witness ==
  /\ resp.op = "select" /\ resp.status = "200"
  /\ \E a, b \in answers, r \in InFlight :
       /\ a.option_id = "o2" /\ b.option_id = "o1"
       /\ At(r, "select", "s2") /\ SameKey(a, r.exam, r.cand, r.q) /\ r.opt = "o1"

\* C6: submit_exam on an existing exam other than the sample exam returns
\* 200 and leaves submitted=1, with or without an attempt row and with or
\* without answers; on an attempt already submitted it changes no table.
C6_SubmitIdempotent ==
  [][\A r \in InFlight :
       (Stepped(r) /\ r.op = "submit" /\ ~IsSample(r.exam) /\ ExamExists(r.exam))
       => /\ resp' = [op |-> "submit", status |-> "200", out |-> {},
                      flag |-> IsSubmitted(r.exam, r.cand)]
          /\ [exam_id |-> r.exam, candidate_id |-> r.cand, submitted |-> 1] \in attempts'
          /\ answers' = answers
          /\ IsSubmitted(r.exam, r.cand) => db' = db]_vars

\* a second submit has returned 200 for a candidate with no answer, while
\* the other candidate's attempt is open
C6_Witness ==
  /\ resp.op = "submit" /\ resp.status = "200"
  /\ resp.flag
  /\ \E p \in submitOk : AnswerRows(p[1], p[2]) = {}
  /\ \E a \in attempts : a.submitted = 0

\* what the two queries of get_state read
C7_ReadsOwnRows ==
  \A r \in InFlight :
    (Stepped(r) /\ r.op = "get_state")
    => IF r.pc = "s1"
       THEN [r EXCEPT !.pc = "s2",
                      !.out = { <<a.question_id, a.option_id>> :
                                  a \in { x \in answers : x.exam_id = r.exam
                                                          /\ x.candidate_id = r.cand } }]
              \in InFlight'
       ELSE resp' = [op |-> "get_state", status |-> "200", out |-> r.out,
                     flag |-> (\E a \in attempts : /\ a.exam_id = r.exam
                                                   /\ a.candidate_id = r.cand
                                                   /\ a.submitted = 1)]

\* the writes of one candidate and the queries of another
C7_OthersUnseen ==
  \A r \in InFlight :
    (Stepped(r) /\ r.op \in {"select", "submit"})
    => \A e \in ExamIds, c \in Candidates \ {r.cand} :
         /\ AnswerMap(AnswerRows(e, c))' = AnswerMap(AnswerRows(e, c))
         /\ IsSubmitted(e, c)' = IsSubmitted(e, c)

\* C7: get_state returns the answers stored for its candidate and exam and
\* the submitted flag of that candidate's attempt, and no select_option or
\* submit_exam of one candidate changes what get_state returns to another.
C7_Isolation == [][C7_ReadsOwnRows /\ C7_OthersUnseen]_vars

\* get_state has returned o1 for the question another candidate, who has
\* submitted, answered with o2
C7_Witness ==
  /\ resp.op = "get_state" /\ resp.out = {<<"q1", "o1">>} /\ ~resp.flag
  /\ \E a \in answers : a.option_id = "o2" /\ <<a.exam_id, a.candidate_id>> \in submitOk

\* every option and every answer has its question
C8_NoOrphanRows ==
  /\ \A o \in options : QuestionExists(o.question_id)
  /\ \A a \in answers : QuestionExists(a.question_id)

\* what the commit of delete_question leaves
C8_DeleteRemovesAll ==
  \A r \in InFlight :
    (Stepped(r) /\ At(r, "delete_question", "s3"))
    => /\ resp'.status = "200"
       /\ \A x \in questions' : x.id # r.q
       /\ \A o \in options' : o.question_id # r.q
       /\ \A a \in answers' : a.question_id # r.q
       /\ \A e \in ExamIds, c \in Candidates :
            \A p \in AnswerMap(AnswerRows(e, c))' : p[1] # r.q

\* C8: no committed state shows an option or an answer of a question that
\* is not there, and the commit of delete_question leaves no question, no
\* option and no answer row of its question, for any candidate, submitted or
\* not, so that no get_state query returns it.
C8_CascadeDelete == []C8_NoOrphanRows /\ [][C8_DeleteRemovesAll]_vars

\* q3 has been deleted after a get_state, still in flight, had read an
\* answer to it, and a candidate has submitted
C8_Witness ==
  /\ resp.op = "delete_question" /\ resp.status = "200"
  /\ ~QuestionExists("q3")
  /\ submitOk # {}
  /\ \E r \in InFlight : At(r, "get_state", "s2") /\ <<"q3", "q3a">> \in r.out

\* a request addressed to the sample exam
TargetsSample(r) ==
  \/ r.op \in {"add_question", "activate", "select", "submit"} /\ r.exam = SampleExam
  \/ r.op = "delete_question" /\ r.q \in { x.id : x \in SeedQuestions }

\* C9: add_question_with_options, activate_exam, select_option and
\* submit_exam addressed to exam1, and delete_question of a question of
\* exam1, end with an error and change no table, whoever calls.
C9_SampleExamReadOnly ==
  [][\A r \in InFlight :
       (Stepped(r) /\ TargetsSample(r))
       => /\ resp' = [op |-> r.op, status |-> "400", out |-> {}, flag |-> FALSE]
          /\ reqs' = reqs (-) SetToBag({r})
          /\ db' = db]_vars

\* delete_question of a question of exam1 was refused while another exam
\* holds an answer and a submitted attempt
C9_Witness ==
  /\ resp.op = "delete_question" /\ resp.status = "400"
  /\ answers # {}
  /\ submitOk # {}

\* the candidates whose token row is there: those the admin has not purged
Known == { t.candidate_id : t \in tokens }

\* C11: for every exam E and every candidate C who is not purged, once the
\* attempt of (E, C) reads submitted=1, which is what get_state reports, it
\* reads submitted=1 after every later step, deletion of the exam by the
\* purge of its creator included.
C11_SubmittedTerminal ==
  [][\A e \in ExamIds, c \in Known' :
       IsSubmitted(e, c) => IsSubmitted(e, c)']_vars

\* the steps that may write the attempt row of (e, c)
C12_AttemptWriter(e, c) ==
  \E r \in InFlight :
    /\ Stepped(r) /\ r.exam = e /\ r.cand = c /\ resp'.status = "200"
    /\ At(r, "select", "s2") \/ At(r, "submit", "s1")

\* C12: an attempt row exists for (E, C) if and only if C has saved an
\* answer for E or submitted E with success: every pair that has submitted,
\* its candidate not purged, and every stored answer has its attempt row, the
\* attempt row of a candidate who is not purged stays once written, and only
\* a successful select_option or submit_exam of C on E writes one (get_state
\* and load_exam never do).
C12_AttemptIffActivity ==
  /\ [](\A p \in submitOk : p[2] \in Known => AttemptRows(p[1], p[2]) # {})
  /\ [](\A a \in answers : AttemptRows(a.exam_id, a.candidate_id) # {})
  /\ [][\A e \in ExamIds, c \in Candidates :
         /\ (AttemptRows(e, c) # {} /\ c \in Known') => AttemptRows(e, c)' # {}
         /\ (AttemptRows(e, c)' # AttemptRows(e, c) /\ AttemptRows(e, c)' # {})
              => C12_AttemptWriter(e, c)]_vars

\* what a step of create_exam leaves
C13_CreateStep ==
  \A r \in InFlight :
    (Stepped(r) /\ r.op = "create_exam")
    => /\ ExamCount(r.cand) >= ExamLimit
            => resp'.status = "400" /\ reqs' = reqs (-) SetToBag({r}) /\ db' = db
       /\ \A x \in exams' \ exams : x.active = 0 /\ x.creator_id = r.cand

\* C13: no candidate is the creator of more than 25 exams in any reachable
\* state, concurrent create_exam calls of one candidate included; a
\* create_exam of a candidate who owns 25 is answered with an error and
\* writes nothing; every exam created starts with active=0.
C13_ExamLimitHolds ==
  /\ [](\A c \in Candidates \cup {SeedCreator} : ExamCount(c) <= ExamLimit)
  /\ [][C13_CreateStep]_vars

\* every question has between 2 and 6 options, one of them correct
C14_WellFormed ==
  \A q \in questions :
    LET os == { o \in options : o.question_id = q.id }
    IN  /\ Cardinality(os) >= MinOptions
        /\ Cardinality(os) <= MaxOptions
        /\ \E o \in os : o.is_correct = 1

\* what a step of add_question_with_options leaves
C14_AddStep ==
  \A r \in InFlight :
    (Stepped(r) /\ r.op = "add_question")
    => /\ (r.pay[1] < 2 \/ r.pay[1] > 6 \/ r.pay[2] = 0)
            => resp'.status = "400" /\ reqs' = reqs (-) SetToBag({r})
       /\ resp' = resp \/ resp'.status # "200" => db' = db
       /\ (resp' # resp /\ resp'.status = "200")
            => \E qid \in NewQuestionIds :
                 /\ questions' \ questions = { [id |-> qid, exam_id |-> r.exam] }
                 /\ Cardinality(options' \ options) = r.pay[1]
                 /\ \A o \in options' \ options : o.question_id = qid
                 /\ questions \subseteq questions' /\ options \subseteq options'

\* C14: in every committed state every question has between 2 and 6 options,
\* at least one of them correct; add_question_with_options refuses option
\* lists outside [2,6] or with no correct option, a refused or failed call
\* writes nothing, and a successful one writes the question and all of its
\* options in one step.
C14_QuestionsWellFormed == []C14_WellFormed /\ [][C14_AddStep]_vars

\* add_question_with_options has written a question with six options
C14_Witness ==
  /\ resp.op = "add_question" /\ resp.status = "200"
  /\ Cardinality({ o \in options : o.question_id = "q3" }) = 6
  /\ \E x \in questions : x.id = "q3"

\* C19: every question in a list load_exam returns carries between 2 and 6
\* options, the option set it has in a committed state, whatever
\* add_question_with_options and delete_question calls run beside it.
C19_LoadExamWholeQuestions ==
  (resp.op = "load_exam" /\ resp.status = "200")
  => \A x \in resp.out :
       /\ Cardinality(x.options) >= MinOptions
       /\ Cardinality(x.options) <= MaxOptions

\* one attempt row per (exam, candidate)
C15_OneAttemptPerPair ==
  \A a, b \in attempts :
    (a.exam_id = b.exam_id /\ a.candidate_id = b.candidate_id) => a = b

\* the commit of a save beside the other saves written and in flight
C15_CommitKeepsOthers ==
  \A r \in InFlight :
    (Stepped(r) /\ At(r, "select", "s2") /\ resp'.status = "200")
    => /\ \A a \in answers : ~SameKey(a, r.exam, r.cand, r.q) => a \in answers'
       /\ \A a \in answers' :
            IF SameKey(a, r.exam, r.cand, r.q) THEN a.option_id = r.opt ELSE a \in answers
       /\ \E a \in answers' : SameKey(a, r.exam, r.cand, r.q)
       /\ Cardinality(AttemptRows(r.exam, r.cand)') = 1
       /\ attempts \subseteq attempts'

\* C15: when saves of one candidate on one exam run together, each commit
\* keeps the answer rows of every other question and leaves its own option
\* under its key, so that for one question the option of the last commit is
\* stored and for two questions both rows are, and the pair has exactly one
\* attempt row.
C15_ConcurrentSaves == []C15_OneAttemptPerPair /\ [][C15_CommitKeepsOthers]_vars

\* a candidate's save for q2 has committed beside the same candidate's save
\* for q1, which passed its check and is about to write
C15_Witness ==
  /\ resp.op = "select" /\ resp.status = "200"
  /\ \E a \in answers, r \in InFlight :
       /\ a.question_id = "q2"
       /\ At(r, "select", "s2") /\ r.q = "q1"
       /\ r.exam = a.exam_id /\ r.cand = a.candidate_id
       /\ Cardinality(AttemptRows(r.exam, r.cand)) = 1

\* token t has a row with active=1
C16_Valid(t) == \E x \in tokens : x.token = t /\ x.active = 1

\* what revoking, arriving with a token that is not valid, and every other
\* step do to the validity of a token
C16_Step ==
  /\ \A t \in Tokens :
       /\ (RevokeToken(t) /\ resp'.status = "200") => ~C16_Valid(t)'
       /\ (t \in issued.tok /\ ~C16_Valid(t)) => ~C16_Valid(t)'
  /\ \A a \in AnyToken(CatalogCalls) :
       (~C16_Valid(a[1]) /\ Begin(a[1], a[2]))
       => /\ resp' = [op |-> a[2].op, status |-> "401", out |-> {}, flag |-> FALSE]
          /\ reqs' = reqs
          /\ db' = db

\* C16: after revoke_token(t) has returned 200, t is not valid and nothing
\* makes an issued token that is not valid valid again; a candidate request
\* that arrives with a token that is not valid, revoked, purged or never
\* issued, is answered 401, starts no handler and changes no table.
C16_RevokedRejected == [][C16_Step]_vars

\* the last response is a 401 when every token has been issued and has its
\* row, so that the token it refused is a revoked one, while the other token
\* is valid
C16_Witness ==
  /\ resp.status = "401"
  /\ { x.token : x \in tokens } = Tokens
  /\ \E x, y \in tokens : x.active = 0 /\ y.active = 1

\* C17: in every reachable state every answer row names an exam, a question
\* and an option that are there: a save naming one that is not writes no
\* answer, and neither delete_question nor the purge of an exam leaves an
\* answer of what it removed.
C17_AnswersReferExisting ==
  \A a \in answers :
    /\ \E x \in exams : x.id = a.exam_id
    /\ \E x \in questions : x.id = a.question_id
    /\ \E x \in options : x.id = a.option_id

\* delete_question has returned 200 and no answer is left, while an attempt
\* that only a committed save can have written is still open
C17_Witness ==
  /\ resp.op = "delete_question" /\ resp.status = "200"
  /\ answers = {}
  /\ \E a \in attempts : a.submitted = 0

\* C18: a select_option or submit_exam that ends with an error, whether for
\* a submitted attempt, the sample exam or a write the database refuses,
\* leaves attempts and answers as they were before the call, the attempt row
\* it may have inserted before the refused answer included.
C18_ErrorsWriteNothing ==
  [][\A r \in InFlight :
       (/\ Stepped(r) /\ r.op \in {"select", "submit"}
        /\ reqs' = reqs (-) SetToBag({r})
        /\ resp'.status # "200")
       => attempts' = attempts /\ answers' = answers]_vars

\* a save was answered 500 for a question that is not there, in an exam that
\* is, by a candidate with no attempt row, and no attempt row is left
C18_Witness ==
  /\ resp.op = "select" /\ resp.status = "500"
  /\ ExamExists(AttemptExam) /\ ~QuestionExists("q3")
  /\ attempts = {}

\* C20: in every reachable state the question of each stored answer belongs
\* to the answer's exam and the option of each stored answer belongs to the
\* answer's question.
C20_AnswersConsistent ==
  \A a \in answers :
    /\ \A x \in questions : x.id = a.question_id => x.exam_id = a.exam_id
    /\ \A x \in options : x.id = a.option_id => x.question_id = a.question_id

====
